---- MODULE Spec2Model ----
(***************************************************************************)
(* State-machine model of streamlit_version_app.py: the station list kept  *)
(* in the Streamlit session, the in-session API cache, the journey-time    *)
(* client get_travel_time_with_routes (cache check, provider request,      *)
(* recursive retry on timeout, best-journey selection) and the calculation *)
(* section (origin resolution, midpoint, radius filter, candidate loop,    *)
(* variance-minimising selection, report).                                 *)
(*                                                                         *)
(* The provider boundary is the call requests.get(...) of line 46: what    *)
(* the call yields (timeout, HTTP error status, malformed body, a list of  *)
(* journeys) is chosen nondeterministically at every request.              *)
(* Coordinates are integers on a planar kilometre grid, standing in for    *)
(* geopy's geodesic distance; means and variances are exact rationals,     *)
(* compared by cross-multiplication.                                       *)
(*                                                                         *)
(* Spec is the application; TimedSpec adds the wall clock, ReloadSpec a    *)
(* station list that outlives a reload of the catalog, FairSpec the count  *)
(* of the requests of a run and the fairness of a script that runs to its  *)
(* end.                                                                    *)
(***************************************************************************)
EXTENDS Integers, Sequences, FiniteSets, TLC

\* ------------------------------------------------------------------------
\* Bounds of the model
\* ------------------------------------------------------------------------
\* number of runs of the calculation section in one behaviour
MaxRuns == 2
\* number of starting stations the user adds
MaxUsers == 2
\* seconds that pass in one step of the clock, and the last clock value
TickSeconds == 3601
MaxClock == 3601

\* ------------------------------------------------------------------------
\* Program constants
\* ------------------------------------------------------------------------
expire_after == 3600
radius_km == 5
DefaultRetries == 3
\* Python's None, for a duration (no integer duration is negative)
None == -1
\* best_station = None
NoStation == ""

\* st.session_state.user_stations / selectbox placeholder
Placeholder == "Select a station..."

\* ------------------------------------------------------------------------
\* The station catalog (tube_stations.csv as loaded by load_stations)
\* ------------------------------------------------------------------------
load_stations ==
    << [Station |-> "A", StationID |-> "a", Latitude |-> 0, Longitude |-> -20],
       [Station |-> "C", StationID |-> "c", Latitude |-> 3, Longitude |-> 0],
       [Station |-> "B", StationID |-> "b", Latitude |-> 0, Longitude |-> 20],
       [Station |-> "D", StationID |-> "d", Latitude |-> 0, Longitude |-> 1] >>

station_names == { load_stations[i].Station : i \in 1..Len(load_stations) }

\* ------------------------------------------------------------------------
\* What one provider request can yield
\* ------------------------------------------------------------------------
LegTube == [departurePoint |-> "P", arrivalPoint |-> "Q", routeOptions |-> <<"Victoria">>]
LegWalk == [departurePoint |-> "Q", arrivalPoint |-> "R", routeOptions |-> <<>>]

JA == [duration |-> 1, legs |-> <<LegTube>>]
JB == [duration |-> 3, legs |-> <<LegTube, LegWalk>>]
JC == [duration |-> 2, legs |-> <<LegWalk>>]
JZ == [duration |-> 0, legs |-> <<LegTube>>]
JN == [duration |-> None, legs |-> <<LegTube>>]

JourneyLists == { <<>>, <<JC>>, <<JB, JA>>, <<JA, JC>>, <<JZ>>, <<JN>> }

ProviderOutcomes ==
    { [kind |-> "Timeout", status |-> 0, journeys |-> <<>>],
      [kind |-> "Response", status |-> 503, journeys |-> <<>>],
      [kind |-> "Response", status |-> 404, journeys |-> <<>>],
      [kind |-> "Malformed", status |-> 200, journeys |-> <<>>] }
    \cup { [kind |-> "Response", status |-> 200, journeys |-> js] : js \in JourneyLists }

\* ------------------------------------------------------------------------
\* Pure helpers
\* ------------------------------------------------------------------------
\* Python truthiness of a duration: None and 0 are falsy
Truthy(d) == d /= None /\ d /= 0

\* variant of cache_key: the key is built from the set of the two ids and
\* is the same in both directions
cache_key_unordered(start_station_id, end_station_id) ==
    LET ids   == {start_station_id, end_station_id}
        first == CHOOSE x \in ids : TRUE
        other == IF Cardinality(ids) = 1 THEN first ELSE CHOOSE y \in ids : y /= first
    IN  first \o "_" \o other

\* cache_key = f"{start_station_id}_{end_station_id}"
cache_key(start_station_id, end_station_id) ==
    start_station_id \o "_" \o end_station_id

\* return None, []
Failure == [duration |-> None, route |-> <<>>]

\* the loop "for journey in data['journeys']" with strict <; 0 when no journey
RECURSIVE best_journey_from(_, _, _, _)
best_journey_from(journeys, i, best, min_changes) ==
    IF i > Len(journeys) THEN best
    ELSE LET num_changes == Len(journeys[i].legs) - 1
         IN  IF best = 0 \/ num_changes < min_changes
             THEN best_journey_from(journeys, i + 1, i, num_changes)
             ELSE best_journey_from(journeys, i + 1, best, min_changes)

\* variant of best_journey: "if num_changes <= min_changes", the last of the
\* journeys with the fewest changes
RECURSIVE best_journey_last_from(_, _, _, _)
best_journey_last_from(journeys, i, best, min_changes) ==
    IF i > Len(journeys) THEN best
    ELSE LET num_changes == Len(journeys[i].legs) - 1
         IN  IF best = 0 \/ num_changes <= min_changes
             THEN best_journey_last_from(journeys, i + 1, i, num_changes)
             ELSE best_journey_last_from(journeys, i + 1, best, min_changes)

best_journey_last(journeys) == best_journey_last_from(journeys, 1, 0, 0)

best_journey(journeys) == best_journey_from(journeys, 1, 0, 0)

\* route_details built from the legs of the best journey
route_details(legs) ==
    [ i \in 1..Len(legs) |->
        [from |-> legs[i].departurePoint,
         to   |-> legs[i].arrivalPoint,
         line |-> IF legs[i].routeOptions /= <<>>
                  THEN legs[i].routeOptions[1] ELSE "Walking"] ]

RECURSIVE SumSeq(_)
SumSeq(s) == IF s = <<>> THEN 0 ELSE Head(s) + SumSeq(Tail(s))

RECURSIVE SumSq(_)
SumSq(s) == IF s = <<>> THEN 0 ELSE Head(s) * Head(s) + SumSq(Tail(s))

\* sum((n*t - total)^2 for t in ts): the squared deviations from the mean
\* total/n, scaled by n^2
RECURSIVE SumSqDev(_, _, _)
SumSqDev(ts, n, total) ==
    IF ts = <<>> THEN 0
    ELSE (n * Head(ts) - total) * (n * Head(ts) - total) + SumSqDev(Tail(ts), n, total)

\* mean_time = sum(times) / len(times)
\* variance = sum((t - mean_time)**2 for t in times) / len(times),
\* as the exact fraction num/den
Variance(ts) ==
    [num |-> SumSqDev(ts, Len(ts), SumSeq(ts)), den |-> Len(ts) * Len(ts) * Len(ts)]

\* float('inf')
Infinity == [num |-> 1, den |-> 0]

\* variant of Less: "variance <= min_variance"
LessOrEqual(variance, minimum) == variance.num * minimum.den <= minimum.num * variance.den

\* "variance < min_variance", on fractions with den >= 0
Less(variance, minimum) == variance.num * minimum.den < minimum.num * variance.den

\* variants of MayRetry: "if retries >= 0", "if retries > 1", no test at all
MayRetryOnceMore(r) == r >= 0
MayRetryOneLess(r) == r > 1
MayRetryAlways(r) == TRUE

\* "if retries > 0" in the timeout handler
MayRetry(r) == r > 0

\* variant of IsTimeout: a malformed body handled by the retrying handler
IsTimeoutOrMalformed(o) == o.kind = "Timeout" \/ o.kind = "Malformed"

\* "except requests.exceptions.Timeout": the only outcome that is retried
IsTimeout(o) == o.kind = "Timeout"

\* what raises into "except Exception": raise_for_status() on a 4xx/5xx
\* status, json() or a missing key on a malformed body
Raises(o) == o.kind = "Malformed" \/ o.status >= 400

\* variant of IsSelfJourney: the test is missing
NeverSelfJourney(start_station_id, end_station_id) == FALSE

\* "if start_station_id == end_station_id"
IsSelfJourney(start_station_id, end_station_id) == start_station_id = end_station_id

\* variant of CachedValue: the route is not stored
CachedValueNoRoute(duration, route) == [duration |-> duration, route |-> <<>>]

\* the tuple stored by "api_cache[cache_key] = (duration, route_details)"
CachedValue(duration, route) == [duration |-> duration, route |-> route]

\* variant of ClearGuard: the guard tests a key that is never present
ClearGuardWrongKey(present) == FALSE

\* "if 'api_cache' in st.session_state" before the del
ClearGuard(present) == present

RECURSIVE MaxSeq(_)
MaxSeq(s) == IF Len(s) = 1 THEN s[1]
             ELSE LET m == MaxSeq(Tail(s)) IN IF s[1] > m THEN s[1] ELSE m

RECURSIVE MinSeq(_)
MinSeq(s) == IF Len(s) = 1 THEN s[1]
             ELSE LET m == MinSeq(Tail(s)) IN IF s[1] < m THEN s[1] ELSE m

\* index of the first catalog row with this name, 0 if there is none
RECURSIVE FirstRow(_, _)
FirstRow(name, i) ==
    IF i > Len(load_stations) THEN 0
    ELSE IF load_stations[i].Station = name THEN i ELSE FirstRow(name, i + 1)

\* names of users without a catalog row, in input order
Unresolved(users) == SelectSeq(users, LAMBDA u : FirstRow(u, 1) = 0)

\* position of the first user without a catalog row, Len(users) + 1 if none
RECURSIVE FirstUnresolved(_, _)
FirstUnresolved(users, i) ==
    IF i > Len(users) THEN i
    ELSE IF FirstRow(users[i], 1) = 0 THEN i ELSE FirstUnresolved(users, i + 1)

\* variant of EnoughStations: one station is enough
AtLeastOneStation(n) == n >= 1

\* "len(st.session_state.user_stations) >= 2" next to the solve button
EnoughStations(n) == n >= 2

\* user_stations (station ids) and user_coords of the resolved users
ResolvedIds(users) == [ i \in 1..Len(users) |-> load_stations[FirstRow(users[i], 1)].StationID ]
ResolvedLat(users) == [ i \in 1..Len(users) |-> load_stations[FirstRow(users[i], 1)].Latitude ]
ResolvedLon(users) == [ i \in 1..Len(users) |-> load_stations[FirstRow(users[i], 1)].Longitude ]

\* distance_to_center <= radius_km, with the midpoint (sum/n) scaled by n
WithinRadius(station, lats, lons) ==
    LET n  == Len(lats)
        dy == n * station.Latitude - SumSeq(lats)
        dx == n * station.Longitude - SumSeq(lons)
    IN  dy * dy + dx * dx <= (n * radius_km) * (n * radius_km)

\* midpoint_lat, midpoint_lon as sums over the number of users
Midpoint(lats, lons) == [lat |-> SumSeq(lats), lon |-> SumSeq(lons), n |-> Len(lats)]

\* variant of nearby: when no station is within the radius, the whole catalog
nearby_or_all(lats, lons) ==
    IF SelectSeq(load_stations, LAMBDA s : WithinRadius(s, lats, lons)) = <<>>
    THEN load_stations
    ELSE SelectSeq(load_stations, LAMBDA s : WithinRadius(s, lats, lons))

nearby(lats, lons) == SelectSeq(load_stations, LAMBDA s : WithinRadius(s, lats, lons))

\* ------------------------------------------------------------------------
\* State
\* ------------------------------------------------------------------------
VARIABLES
    user_stations,    \* st.session_state.user_stations: station names, in order
    has_api_cache,    \* 'api_cache' in st.session_state
    api_cache,        \* st.session_state.api_cache: cache_key -> (duration, route)
    now,              \* wall clock, seconds
    inserted_at,      \* history: cache_key -> clock value when the entry was stored
    pc,               \* position of the script
    outcome,          \* what the last run of the script reported
    runs,             \* runs of the calculation section so far
    start_ids,        \* local user_stations: station ids of the origins
    nearby_stations,  \* catalog rows within the radius, in catalog order
    idx,              \* position in nearby_stations
    oi,               \* position in start_ids (inner loop)
    times, routes, valid,
    best_station, min_variance, results,
    f_start, f_end,   \* arguments of the running get_travel_time_with_routes
    retries,          \* its retries argument
    ret,              \* its return value
    reqs,             \* history: provider requests issued since the outermost call
    trace,            \* history: what each of those requests yielded
    cache_before,     \* history: api_cache when the outermost call was made
    hit,              \* history: the call returned from the cache
    calls,            \* history: origins fetched for the current candidate
    returned,         \* history: the durations those fetches returned
    history,          \* history: the candidates finished in this run, in order
    delivered,        \* history: <<start, end>> -> result of the fetch that cached
                      \*          it, since the last clear
    dropped,          \* history: pairs dropped by a clear and not fetched since,
                      \*          up to the end of the run that follows the clear
    midpoint,         \* local midpoint: sums of latitudes and longitudes and their
                      \*          number (midpoint_lat = lat / n, midpoint_lon = lon / n)
    unresolved_name,  \* the name in st.error("Could not find station: ...")
    max_diff,         \* the "Maximum difference" of the report
    rejected,         \* history: the last press was the solve button with fewer
                      \*          than 2 stations
    looked_up,        \* history: the running fetch read st.session_state.api_cache
    fetched,          \* history: the fetches made for the current candidate, each
                      \*          with the route when the caller keeps it
    solve_reqs        \* history: provider requests issued by the current run,
                      \*          where requests are counted (FairSpec)

uiVars    == <<user_stations>>
cacheVars == <<has_api_cache, api_cache, inserted_at>>
loopVars  == <<start_ids, nearby_stations, idx, oi, times, routes, valid,
               best_station, min_variance, results, calls, returned, history>>
histVars  == <<delivered, dropped>>
fetchVars == <<f_start, f_end, retries, ret, reqs, trace, cache_before, hit, looked_up>>
solveVars == <<midpoint, unresolved_name, max_diff, rejected>>
vars == <<user_stations, has_api_cache, api_cache, now, inserted_at, pc, outcome, runs,
          start_ids, nearby_stations, idx, oi, times, routes, valid,
          best_station, min_variance, results,
          f_start, f_end, retries, ret, reqs, trace, cache_before, hit,
          calls, returned, history, delivered, dropped,
          midpoint, unresolved_name, max_diff, rejected, looked_up, fetched, solve_reqs>>

EmptyCache == [k \in {} |-> Failure]
EmptyStamps == [k \in {} |-> 0]
NoResults == [times |-> <<>>, routes |-> <<>>]
\* no midpoint computed (yet)
NoMidpoint == [lat |-> 0, lon |-> 0, n |-> 0]

\* the script's local variables before the calculation section has run
FreshLocals ==
    /\ start_ids = <<>>
    /\ nearby_stations = <<>>
    /\ idx = 0
    /\ oi = 0
    /\ times = <<>>
    /\ routes = <<>>
    /\ valid = TRUE
    /\ best_station = NoStation
    /\ min_variance = Infinity
    /\ results = NoResults
    /\ calls = <<>>
    /\ returned = <<>>
    /\ history = <<>>
    /\ f_start = ""
    /\ f_end = ""
    /\ retries = 0
    /\ ret = Failure
    /\ reqs = 0
    /\ trace = <<>>
    /\ cache_before = EmptyCache
    /\ hit = FALSE
    /\ looked_up = FALSE
    /\ midpoint = NoMidpoint
    /\ unresolved_name = ""
    /\ max_diff = None
    /\ fetched = <<>>
    /\ solve_reqs = 0

\* every rerun of the script starts from fresh locals
FreshFetch ==
    /\ f_start' = ""
    /\ f_end' = ""
    /\ retries' = 0
    /\ ret' = Failure
    /\ reqs' = 0
    /\ trace' = <<>>
    /\ cache_before' = EmptyCache
    /\ hit' = FALSE
    /\ looked_up' = FALSE

FreshLoop ==
    /\ oi' = 0
    /\ times' = <<>>
    /\ routes' = <<>>
    /\ valid' = TRUE
    /\ best_station' = NoStation
    /\ min_variance' = Infinity
    /\ results' = NoResults
    /\ calls' = <<>>
    /\ returned' = <<>>
    /\ history' = <<>>
    /\ max_diff' = None
    /\ fetched' = <<>>
    /\ solve_reqs' = 0

Rerun ==
    /\ start_ids' = <<>>
    /\ nearby_stations' = <<>>
    /\ idx' = 0
    /\ midpoint' = NoMidpoint
    /\ unresolved_name' = ""
    /\ FreshLoop
    /\ FreshFetch

Init ==
    /\ user_stations = <<>>
    /\ has_api_cache = FALSE
    /\ api_cache = EmptyCache
    /\ now = 0
    /\ inserted_at = EmptyStamps
    /\ pc = "idle"
    /\ outcome = "NONE"
    /\ runs = 0
    /\ delivered = [p \in {} |-> Failure]
    /\ dropped = {}
    /\ rejected = FALSE
    /\ FreshLocals

InList(name, list) == \E i \in 1..Len(list) : list[i] = name

\* ------------------------------------------------------------------------
\* Buttons (each press reruns the script)
\* ------------------------------------------------------------------------
\* "Add Station" with selected_station chosen in the dropdown
AddStation(selected_station) ==
    /\ pc = "idle"
    /\ Len(user_stations) < MaxUsers
    /\ IF selected_station /= Placeholder /\ ~InList(selected_station, user_stations)
       THEN user_stations' = Append(user_stations, selected_station)
       ELSE user_stations' = user_stations
    /\ outcome' = "NONE"
    /\ rejected' = FALSE
    /\ Rerun
    /\ UNCHANGED <<cacheVars, histVars, now, pc, runs>>

\* "Remove" next to entry i: user_stations.pop(i)
RemoveStation(i) ==
    /\ pc = "idle"
    /\ i \in 1..Len(user_stations)
    /\ user_stations' = SubSeq(user_stations, 1, i - 1)
                            \o SubSeq(user_stations, i + 1, Len(user_stations))
    /\ outcome' = "NONE"
    /\ rejected' = FALSE
    /\ Rerun
    /\ UNCHANGED <<cacheVars, histVars, now, pc, runs>>

\* "Clear All Stations", shown while the list is not empty
ClearAllStations ==
    /\ pc = "idle"
    /\ user_stations /= <<>>
    /\ user_stations' = <<>>
    /\ outcome' = "NONE"
    /\ rejected' = FALSE
    /\ Rerun
    /\ UNCHANGED <<cacheVars, histVars, now, pc, runs>>

\* "Clear API Cache": del st.session_state.api_cache under its guard; a del
\* of a missing entry raises KeyError and ends the run
ClearApiCache ==
    /\ pc = "idle"
    /\ IF ClearGuard(has_api_cache)
       THEN IF has_api_cache
            THEN /\ has_api_cache' = FALSE
                 /\ api_cache' = EmptyCache
                 /\ inserted_at' = EmptyStamps
                 /\ outcome' = "NONE"
            ELSE /\ outcome' = "KeyError"
                 /\ UNCHANGED cacheVars
       ELSE /\ outcome' = "NONE"
            /\ UNCHANGED cacheVars
    /\ dropped' = dropped \cup DOMAIN delivered
    /\ delivered' = [p \in {} |-> Failure]
    /\ rejected' = FALSE
    /\ Rerun
    /\ UNCHANGED <<uiVars, now, pc, runs>>

\* time passes while the script waits for the next button
Tick ==
    /\ pc = "idle"
    /\ now + TickSeconds <= MaxClock
    /\ now' = now + TickSeconds
    /\ UNCHANGED <<uiVars, cacheVars, histVars, pc, outcome, runs, loopVars, fetchVars,
                   solveVars, fetched, solve_reqs>>

\* ------------------------------------------------------------------------
\* The calculation section
\* ------------------------------------------------------------------------
\* variant of SolveButton: the st.stop() after "Could not find station" is
\* missing, the names without a row are skipped and the run goes on with
\* the others (no coordinates at all: ZeroDivisionError, caught at line 258)
SolveButtonNoStop ==
    /\ pc = "idle"
    /\ runs < MaxRuns
    /\ LET users == SelectSeq(user_stations, LAMBDA u : FirstRow(u, 1) /= 0)
           lats  == ResolvedLat(users)
           lons  == ResolvedLon(users)
           near  == nearby(lats, lons)
       IN  IF ~EnoughStations(Len(user_stations))
           THEN /\ Rerun
                /\ outcome' = "NONE"
                /\ rejected' = TRUE
                /\ UNCHANGED <<pc, runs, dropped>>
           ELSE /\ runs' = runs + 1
                /\ rejected' = FALSE
                /\ FreshLoop
                /\ FreshFetch
                /\ start_ids' = ResolvedIds(users)
                /\ unresolved_name' = IF Unresolved(user_stations) /= <<>>
                                      THEN Unresolved(user_stations)[1] ELSE ""
                /\ IF users = <<>>
                   THEN /\ midpoint' = NoMidpoint
                        /\ nearby_stations' = <<>>
                        /\ idx' = 0
                        /\ outcome' = "ERROR"
                        /\ pc' = "idle"
                        /\ dropped' = {}
                   ELSE IF near = <<>>
                   THEN /\ midpoint' = Midpoint(lats, lons)
                        /\ nearby_stations' = near
                        /\ idx' = 0
                        /\ outcome' = "NO_CANDIDATE"
                        /\ pc' = "idle"
                        /\ dropped' = {}
                   ELSE /\ midpoint' = Midpoint(lats, lons)
                        /\ nearby_stations' = near
                        /\ idx' = 1
                        /\ outcome' = "NONE"
                        /\ pc' = "loop_dest"
                        /\ UNCHANGED dropped
    /\ UNCHANGED <<uiVars, cacheVars, delivered, now>>

\* "Meet everyone at once!": with fewer than 2 stations the press only reruns
\* the script; otherwise origins are resolved, the midpoint computed and the
\* catalog filtered by radius, up to the start of the candidate loop.
SolveButton ==
    /\ pc = "idle"
    /\ runs < MaxRuns
    /\ LET users == user_stations
           lats  == ResolvedLat(users)
           lons  == ResolvedLon(users)
           near  == nearby(lats, lons)
       IN  IF ~EnoughStations(Len(users))
           THEN /\ Rerun
                /\ outcome' = "NONE"
                /\ rejected' = TRUE
                /\ UNCHANGED <<pc, runs, dropped>>
           ELSE /\ runs' = runs + 1
                /\ rejected' = FALSE
                /\ FreshLoop
                /\ FreshFetch
                /\ IF Unresolved(users) /= <<>>
                   THEN \* st.error("Could not find station: ..."); st.stop()
                        /\ start_ids' = ResolvedIds(SubSeq(users, 1, FirstUnresolved(users, 1) - 1))
                        /\ unresolved_name' = users[FirstUnresolved(users, 1)]
                        /\ midpoint' = NoMidpoint
                        /\ nearby_stations' = <<>>
                        /\ idx' = 0
                        /\ outcome' = "RESOLUTION_FAILURE"
                        /\ pc' = "idle"
                        /\ dropped' = {}
                   ELSE IF near = <<>>
                   THEN \* st.warning("No stations found within ..."); st.stop()
                        /\ start_ids' = ResolvedIds(users)
                        /\ unresolved_name' = ""
                        /\ midpoint' = Midpoint(lats, lons)
                        /\ nearby_stations' = near
                        /\ idx' = 0
                        /\ outcome' = "NO_CANDIDATE"
                        /\ pc' = "idle"
                        /\ dropped' = {}
                   ELSE /\ start_ids' = ResolvedIds(users)
                        /\ unresolved_name' = ""
                        /\ midpoint' = Midpoint(lats, lons)
                        /\ nearby_stations' = near
                        /\ idx' = 1
                        /\ outcome' = "NONE"
                        /\ pc' = "loop_dest"
                        /\ UNCHANGED dropped
    /\ UNCHANGED <<uiVars, cacheVars, delivered, now>>

\* head of "for idx, dest_station in enumerate(nearby_stations)"
LoopDest ==
    /\ pc = "loop_dest"
    /\ idx <= Len(nearby_stations)
    /\ times' = <<>>
    /\ routes' = <<>>
    /\ valid' = TRUE
    /\ oi' = 1
    /\ calls' = <<>>
    /\ returned' = <<>>
    /\ fetched' = <<>>
    /\ pc' = "loop_origin"
    /\ UNCHANGED <<uiVars, cacheVars, histVars, now, outcome, runs, start_ids,
                   nearby_stations, idx, best_station, min_variance, results, history,
                   fetchVars, solveVars, solve_reqs>>

\* head of "for start_id in user_stations": the call of get_travel_time_with_routes
CallFetch ==
    /\ pc = "loop_origin"
    /\ oi <= Len(start_ids)
    /\ f_start' = start_ids[oi]
    /\ f_end' = nearby_stations[idx].StationID
    /\ retries' = DefaultRetries
    /\ ret' = Failure
    /\ reqs' = 0
    /\ trace' = <<>>
    /\ cache_before' = api_cache
    /\ hit' = FALSE
    /\ looked_up' = FALSE
    /\ calls' = Append(calls, start_ids[oi])
    /\ pc' = "fetch"
    /\ UNCHANGED <<uiVars, cacheVars, histVars, now, outcome, runs, start_ids,
                   nearby_stations, idx, oi, times, routes, valid, best_station,
                   min_variance, results, returned, history, solveVars, fetched,
                   solve_reqs>>

\* ------------------------------------------------------------------------
\* get_travel_time_with_routes
\* ------------------------------------------------------------------------
\* entry of the function (the outermost call and every recursive call):
\* cache lookup, then the test for a journey from a station to itself
FetchEntry ==
    /\ pc = "fetch"
    /\ looked_up' = (looked_up \/ has_api_cache)
    /\ LET key == cache_key(f_start, f_end)
       IN  IF has_api_cache /\ key \in DOMAIN api_cache
           THEN /\ ret' = api_cache[key]
                /\ hit' = TRUE
                /\ pc' = "fetch_ret"
           ELSE IF IsSelfJourney(f_start, f_end)
           THEN /\ ret' = Failure
                /\ hit' = FALSE
                /\ pc' = "fetch_ret"
           ELSE /\ pc' = "request"
                /\ UNCHANGED <<ret, hit>>
    /\ UNCHANGED <<uiVars, cacheVars, histVars, now, outcome, runs, loopVars,
                   f_start, f_end, retries, reqs, trace, cache_before,
                   solveVars, fetched, solve_reqs>>

\* what the function returns for a response with status 200 and a parsed body
Parsed(journeys) ==
    IF journeys = <<>> \/ best_journey(journeys) = 0
    THEN Failure
    ELSE LET best == journeys[best_journey(journeys)]
         IN  [duration |-> best.duration, route |-> route_details(best.legs)]

\* requests.get(...) and what follows it, for one outcome of the request
Exchange(o) ==
    /\ pc = "request"
    /\ reqs' = reqs + 1
    /\ trace' = Append(trace, o)
    /\ IF IsTimeout(o)
       THEN \* except requests.exceptions.Timeout
            IF MayRetry(retries)
            THEN /\ retries' = retries - 1
                 /\ pc' = "fetch"
                 /\ UNCHANGED <<ret, cacheVars>>
            ELSE /\ ret' = Failure
                 /\ pc' = "fetch_ret"
                 /\ UNCHANGED <<retries, cacheVars>>
       ELSE IF Raises(o)
       THEN \* except Exception
            /\ ret' = Failure
            /\ pc' = "fetch_ret"
            /\ UNCHANGED <<retries, cacheVars>>
       ELSE LET r   == Parsed(o.journeys)
                key == cache_key(f_start, f_end)
            IN  /\ ret' = r
                /\ pc' = "fetch_ret"
                /\ UNCHANGED retries
                /\ IF o.journeys /= <<>> /\ Truthy(r.duration)
                   THEN /\ has_api_cache' = TRUE
                        /\ api_cache' = [k \in DOMAIN api_cache \cup {key} |->
                                           IF k = key THEN CachedValue(r.duration, r.route)
                                           ELSE api_cache[k]]
                        /\ inserted_at' = [k \in DOMAIN inserted_at \cup {key} |->
                                             IF k = key THEN now ELSE inserted_at[k]]
                   ELSE UNCHANGED cacheVars
    /\ UNCHANGED <<uiVars, histVars, now, outcome, runs, loopVars, f_start, f_end,
                   cache_before, hit, looked_up, solveVars, fetched>>

\* one provider request
Request(o) == Exchange(o) /\ UNCHANGED solve_reqs

\* one provider request, counted against the run that issues it
CountedRequest(o) == Exchange(o) /\ solve_reqs' = solve_reqs + 1

\* variant of FetchReturn: the break after "valid = False" is missing
FetchReturnNoBreak ==
    /\ pc = "fetch_ret"
    /\ IF ~Truthy(ret.duration)
       THEN /\ valid' = FALSE
            /\ oi' = oi + 1
            /\ pc' = "loop_origin"
            /\ UNCHANGED <<times, routes>>
       ELSE /\ times' = Append(times, ret.duration)
            /\ routes' = Append(routes, ret.route)
            /\ oi' = oi + 1
            /\ pc' = "loop_origin"
            /\ UNCHANGED valid
    /\ returned' = Append(returned, ret.duration)
    /\ fetched' = Append(fetched, [start |-> f_start, end |-> f_end,
                                   duration |-> ret.duration,
                                   route |-> IF Truthy(ret.duration) THEN ret.route
                                             ELSE <<>>])
    /\ delivered' = IF ~hit /\ Truthy(ret.duration)
                    THEN [p \in DOMAIN delivered \cup {<<f_start, f_end>>} |->
                            IF p = <<f_start, f_end>> THEN ret ELSE delivered[p]]
                    ELSE delivered
    /\ dropped' = dropped \ {<<f_start, f_end>>}
    /\ FreshFetch
    /\ UNCHANGED <<uiVars, cacheVars, now, outcome, runs, start_ids, nearby_stations, idx,
                   best_station, min_variance, results, calls, history, solveVars,
                   solve_reqs>>

\* variant of FetchReturn: a fetch without a travel time ends the whole
\* candidate loop instead of the inner loop only
FetchReturnAbort ==
    /\ pc = "fetch_ret"
    /\ IF ~Truthy(ret.duration)
       THEN /\ valid' = FALSE
            /\ idx' = Len(nearby_stations) + 1
            /\ pc' = "loop_dest"
            /\ UNCHANGED <<times, routes, oi>>
       ELSE /\ times' = Append(times, ret.duration)
            /\ routes' = Append(routes, ret.route)
            /\ oi' = oi + 1
            /\ pc' = "loop_origin"
            /\ UNCHANGED <<valid, idx>>
    /\ returned' = Append(returned, ret.duration)
    /\ fetched' = Append(fetched, [start |-> f_start, end |-> f_end,
                                   duration |-> ret.duration,
                                   route |-> IF Truthy(ret.duration) THEN ret.route
                                             ELSE <<>>])
    /\ delivered' = IF ~hit /\ Truthy(ret.duration)
                    THEN [p \in DOMAIN delivered \cup {<<f_start, f_end>>} |->
                            IF p = <<f_start, f_end>> THEN ret ELSE delivered[p]]
                    ELSE delivered
    /\ dropped' = dropped \ {<<f_start, f_end>>}
    /\ FreshFetch
    /\ UNCHANGED <<uiVars, cacheVars, now, outcome, runs, start_ids, nearby_stations,
                   best_station, min_variance, results, calls, history, solveVars,
                   solve_reqs>>

\* the function returns into the inner loop, its frame is gone:
\* "if not travel_time: valid = False; break"
FetchReturn ==
    /\ pc = "fetch_ret"
    /\ IF ~Truthy(ret.duration)
       THEN /\ valid' = FALSE
            /\ pc' = "score"
            /\ UNCHANGED <<times, routes, oi>>
       ELSE /\ times' = Append(times, ret.duration)
            /\ routes' = Append(routes, ret.route)
            /\ oi' = oi + 1
            /\ pc' = "loop_origin"
            /\ UNCHANGED valid
    /\ returned' = Append(returned, ret.duration)
    /\ fetched' = Append(fetched, [start |-> f_start, end |-> f_end,
                                   duration |-> ret.duration,
                                   route |-> IF Truthy(ret.duration) THEN ret.route
                                             ELSE <<>>])
    /\ delivered' = IF ~hit /\ Truthy(ret.duration)
                    THEN [p \in DOMAIN delivered \cup {<<f_start, f_end>>} |->
                            IF p = <<f_start, f_end>> THEN ret ELSE delivered[p]]
                    ELSE delivered
    /\ dropped' = dropped \ {<<f_start, f_end>>}
    /\ FreshFetch
    /\ UNCHANGED <<uiVars, cacheVars, now, outcome, runs, start_ids, nearby_stations, idx,
                   best_station, min_variance, results, calls, history, solveVars,
                   solve_reqs>>

\* the inner loop ran to its end
LoopOriginEnd ==
    /\ pc = "loop_origin"
    /\ oi > Len(start_ids)
    /\ pc' = "score"
    /\ UNCHANGED <<uiVars, cacheVars, histVars, now, outcome, runs, loopVars, fetchVars,
                   solveVars, fetched, solve_reqs>>

\* variant of Score: results['times'] and results['routes'] are assigned for
\* every valid candidate, not only for a new best one
ScoreKeepsLast ==
    /\ pc = "score"
    /\ IF valid /\ Len(times) = Len(user_stations)
       THEN LET variance == Variance(times)
            IN  /\ results' = [times |-> times, routes |-> routes]
                /\ IF Less(variance, min_variance)
                   THEN /\ min_variance' = variance
                        /\ best_station' = nearby_stations[idx].Station
                   ELSE UNCHANGED <<min_variance, best_station>>
       ELSE UNCHANGED <<min_variance, best_station, results>>
    /\ history' = Append(history, [station |-> nearby_stations[idx].Station,
                                   returned |-> returned, fetched |-> fetched])
    /\ idx' = idx + 1
    /\ pc' = "loop_dest"
    /\ UNCHANGED <<uiVars, cacheVars, histVars, now, outcome, runs, start_ids,
                   nearby_stations, oi, times, routes, valid, calls, returned, fetchVars,
                   solveVars, fetched, solve_reqs>>

\* "if valid and len(times) == len(users)": score the candidate, keep the best
Score ==
    /\ pc = "score"
    /\ IF valid /\ Len(times) = Len(user_stations)
       THEN LET variance == Variance(times)
            IN  IF Less(variance, min_variance)
                THEN /\ min_variance' = variance
                     /\ best_station' = nearby_stations[idx].Station
                     /\ results' = [times |-> times, routes |-> routes]
                ELSE UNCHANGED <<min_variance, best_station, results>>
       ELSE UNCHANGED <<min_variance, best_station, results>>
    /\ history' = Append(history, [station |-> nearby_stations[idx].Station,
                                   returned |-> returned, fetched |-> fetched])
    /\ idx' = idx + 1
    /\ pc' = "loop_dest"
    /\ UNCHANGED <<uiVars, cacheVars, histVars, now, outcome, runs, start_ids,
                   nearby_stations, oi, times, routes, valid, calls, returned, fetchVars,
                   solveVars, fetched, solve_reqs>>

\* after the loop: "if best_station: ... else: ..."; the script ends and
\* only what it rendered stays
Report ==
    /\ pc = "loop_dest"
    /\ idx > Len(nearby_stations)
    /\ outcome' = IF best_station /= NoStation THEN "SUCCESS" ELSE "NO_CANDIDATE"
    /\ pc' = "idle"
    /\ idx' = 0
    /\ oi' = 0
    /\ times' = <<>>
    /\ routes' = <<>>
    /\ valid' = TRUE
    /\ calls' = <<>>
    /\ returned' = <<>>
    /\ fetched' = <<>>
    /\ dropped' = {}
    /\ max_diff' = IF best_station /= NoStation
                   THEN MaxSeq(results.times) - MinSeq(results.times)
                   ELSE None
    /\ UNCHANGED <<uiVars, cacheVars, delivered, now, runs, start_ids, nearby_stations,
                   best_station, min_variance, results, history, fetchVars,
                   midpoint, unresolved_name, rejected, solve_reqs>>

Next ==
    \/ \E selected_station \in station_names \cup {Placeholder} : AddStation(selected_station)
    \/ \E i \in 1..MaxUsers : RemoveStation(i)
    \/ ClearAllStations
    \/ ClearApiCache
    \/ SolveButton
    \/ LoopDest
    \/ CallFetch
    \/ FetchEntry
    \/ \E o \in ProviderOutcomes : Request(o)
    \/ FetchReturn
    \/ LoopOriginEnd
    \/ Score
    \/ Report

\* the application
Spec == Init /\ [][Next]_vars

\* the application with the clock running between button presses
TimedNext == Next \/ Tick

TimedSpec == Init /\ [][TimedNext]_vars

\* names the dropdown offered when they were added to the list and that the
\* catalog, reloaded since (load_stations is cached by st.cache_data, the
\* list is kept in the session), no longer has
StaleNames == {"X", "Y"}

\* the application with a station list that outlives a reload of the catalog
ReloadNext == Next \/ \E selected_station \in StaleNames : AddStation(selected_station)

ReloadSpec == Init /\ [][ReloadNext]_vars

\* a step of the running script: it runs to its end once a button started
\* it, and requests.get(..., timeout=5) returns or times out
Running ==
    \/ LoopDest
    \/ CallFetch
    \/ FetchEntry
    \/ \E o \in ProviderOutcomes : CountedRequest(o)
    \/ FetchReturn
    \/ LoopOriginEnd
    \/ Score
    \/ Report

\* the application, the requests of each run counted
CountedNext ==
    \/ \E selected_station \in station_names \cup StaleNames \cup {Placeholder} :
          AddStation(selected_station)
    \/ \E i \in 1..MaxUsers : RemoveStation(i)
    \/ ClearAllStations
    \/ ClearApiCache
    \/ SolveButton
    \/ Running

FairSpec == Init /\ [][CountedNext]_vars /\ WF_vars(Running)

\* ------------------------------------------------------------------------
\* Vocabulary of the properties
\* ------------------------------------------------------------------------
\* the running fetch is about to return to its caller
AtReturn == pc = "fetch_ret"

\* the ordered pair and the cache key of the running fetch
Pair == <<f_start, f_end>>
PairKey == f_start \o "_" \o f_end

\* a travel time the caller can use
Usable(d) == d /= None /\ d /= 0

LastOutcome == trace[Len(trace)]

\* the first k requests of the running fetch timed out
TimedOut(k) == k <= Len(trace) /\ \A i \in 1..k : trace[i].kind = "Timeout"

\* the provider answered with journeys, each with a usable duration
Succeeds(o) ==
    /\ o.kind = "Response"
    /\ o.status = 200
    /\ o.journeys /= <<>>
    /\ \A j \in 1..Len(o.journeys) : Usable(o.journeys[j].duration)

\* an HTTP server fault / a failure that no retry can cure
ServerFault(o) == o.kind = "Response" /\ o.status >= 500
NonTransient(o) == o.kind = "Malformed" \/ (o.status >= 400 /\ o.status < 500)

\* population variance as E[t^2] - E[t]^2, a fraction num/den
PopVariance(ts) ==
    [num |-> Len(ts) * SumSq(ts) - SumSeq(ts) * SumSeq(ts), den |-> Len(ts) * Len(ts)]

FracLess(a, b) == a.num * b.den < b.num * a.den

\* candidate h got a usable travel time from every origin
FullyEvaluated(h) ==
    /\ Len(h.returned) = Len(start_ids)
    /\ \A k \in 1..Len(h.returned) : Usable(h.returned[k])

\* candidate i of this run has the least variance, and is the first to have it
Winner(i) ==
    /\ FullyEvaluated(history[i])
    /\ \A j \in 1..Len(history) :
         FullyEvaluated(history[j]) =>
           /\ ~FracLess(PopVariance(history[j].returned), PopVariance(history[i].returned))
           /\ j < i => FracLess(PopVariance(history[i].returned),
                                PopVariance(history[j].returned))

\* a run of the candidate loop has ended and its report is on the page
SolveEnded == pc = "idle" /\ history /= <<>>

C2_ShortCircuit ==
    /\ calls = SubSeq(start_ids, 1, Len(calls))
    /\ \A i \in 1..Len(returned) : ~Usable(returned[i]) => Len(calls) = i
    /\ best_station /= NoStation =>
         /\ Len(results.times) = Len(start_ids)
         /\ \E i \in 1..Len(history) :
              /\ history[i].station = best_station
              /\ FullyEvaluated(history[i])
              /\ results.times = history[i].returned

\* a candidate was abandoned at its first origin, a second origin unfetched
C2_Witness ==
    /\ pc = "score"
    /\ Len(start_ids) >= 2
    /\ Len(calls) = 1
    /\ Len(returned) = 1
    /\ ~Usable(returned[1])
    /\ ~valid

\* C3 as stated: a fetch of two distinct stations that misses the cache and
\* whose requests all time out issues at most 3 requests, then returns
\* failure.
C3_AtMostThreeRequests ==
    (AtReturn /\ ~hit /\ f_start /= f_end /\ TimedOut(Len(trace)))
      => reqs <= 3 /\ ret = Failure

\* C3 as amended: no fetch issues more than 1 + retries requests, and such a
\* fetch issues the first request and then the 3 retries, 4 requests in all,
\* and returns failure with the cache as it was.
C3_FirstRequestPlusRetries ==
    /\ reqs <= DefaultRetries + 1
    /\ (AtReturn /\ ~hit /\ f_start /= f_end /\ TimedOut(Len(trace)))
         => /\ reqs = DefaultRetries + 1
            /\ ret = Failure
            /\ api_cache = cache_before

\* a fetch returns failure after its fourth timeout
C3_Witness ==
    /\ AtReturn
    /\ f_start /= f_end
    /\ ~hit
    /\ Len(trace) = DefaultRetries + 1
    /\ TimedOut(Len(trace))
    /\ ret = Failure

\* C4: a fetch gives up after a timeout only when its retries are used up;
\* when k < 3 requests time out and request k+1 succeeds, the fetch returns
\* the duration and route of a journey of that response, has issued exactly
\* k+1 requests, and the result is in the cache under (origin, destination).
C4_RetryThenSuccess ==
    /\ (AtReturn /\ trace /= <<>> /\ LastOutcome.kind = "Timeout")
         => Len(trace) > DefaultRetries
    /\ \A k \in 0..(DefaultRetries - 1) :
         (AtReturn /\ Len(trace) = k + 1 /\ TimedOut(k) /\ Succeeds(LastOutcome))
           => /\ Usable(ret.duration)
              /\ \E j \in 1..Len(LastOutcome.journeys) :
                   /\ ret.duration = LastOutcome.journeys[j].duration
                   /\ Len(ret.route) = Len(LastOutcome.journeys[j].legs)
              /\ reqs = k + 1
              /\ PairKey \in DOMAIN api_cache
              /\ api_cache[PairKey] = ret

\* two timeouts, then a success on the third request
C4_Witness ==
    /\ AtReturn
    /\ Len(trace) = 3
    /\ TimedOut(2)
    /\ Succeeds(LastOutcome)
    /\ reqs = 3
    /\ PairKey \in DOMAIN api_cache

\* C5 as stated: a fetch gives up after a server fault only when its retries
\* are used up, as after a timeout.
C5_ServerFaultRetried ==
    (AtReturn /\ trace /= <<>> /\ ServerFault(LastOutcome))
      => Len(trace) > DefaultRetries

\* C6: a request that fails for good is the last request of its fetch (the
\* only one when it is the first); the fetch then returns failure as a
\* value and leaves the cache as it was.
C6_NonTransientNotRetried ==
    /\ \A i \in 1..Len(trace) : NonTransient(trace[i]) => i = Len(trace)
    /\ (trace /= <<>> /\ NonTransient(LastOutcome))
         => /\ AtReturn
            /\ ret = Failure
            /\ reqs = Len(trace)
            /\ api_cache = cache_before

\* a first request answered with a malformed body, the cache not empty
C6_Witness ==
    /\ AtReturn
    /\ Len(trace) = 1
    /\ LastOutcome.kind = "Malformed"
    /\ reqs = 1
    /\ ret = Failure
    /\ cache_before /= EmptyCache

\* C7 as stated: a fetch changes the cache only when the provider gave it a
\* result with a non-null duration, and then only the entry of its pair; a
\* fetch that returns failure leaves the cache as it was; every provider
\* result with a non-null duration, 0 included, is cached.
C7_CacheWrittenIffNonNull ==
    AtReturn =>
      /\ api_cache /= cache_before =>
           /\ ~hit
           /\ ret.duration /= None
           /\ DOMAIN api_cache = DOMAIN cache_before \cup {PairKey}
           /\ \A k \in DOMAIN cache_before \ {PairKey} : api_cache[k] = cache_before[k]
           /\ api_cache[PairKey] = ret
      /\ ret = Failure => api_cache = cache_before
      /\ (~hit /\ trace /= <<>> /\ LastOutcome.kind = "Response" /\ LastOutcome.status = 200
            /\ LastOutcome.journeys /= <<>> /\ ret.duration /= None)
           => /\ PairKey \in DOMAIN api_cache
              /\ api_cache[PairKey] = ret

\* C8: a fetch of a pair that an earlier fetch obtained and cached, no clear
\* in between, returns that same duration and route from the cache, issues
\* no request and leaves the cache as it was.
C8_HitReturnsCached ==
    (AtReturn /\ Pair \in DOMAIN delivered)
      => /\ hit
         /\ reqs = 0
         /\ ret = delivered[Pair]
         /\ api_cache = cache_before

\* a second fetch of a cached pair returns
C8_Witness ==
    /\ AtReturn
    /\ Pair \in DOMAIN delivered
    /\ hit
    /\ reqs = 0
    /\ Len(ret.route) > 0

\* C9: after a clear the cache holds nothing, so a hit is only ever on a
\* pair obtained since the last clear, and the next fetch of a pair the
\* clear dropped misses and issues a request; a clear never fails, whether
\* or not the cache exists.
C9_ClearDropsAll ==
    /\ (AtReturn /\ hit) => Pair \in DOMAIN delivered
    /\ (AtReturn /\ Pair \in dropped) => ~hit /\ reqs >= 1
    /\ (pc = "idle" /\ DOMAIN delivered = {}) => DOMAIN api_cache = {} /\ ~has_api_cache
    /\ outcome /= "KeyError"

\* the fetch of a pair that a clear dropped returns after a request
C9_Witness ==
    /\ AtReturn
    /\ Pair \in dropped
    /\ ~hit
    /\ reqs >= 1

\* C10 as stated: a fetch of a pair whose cache entry is older than the TTL
\* does not return the entry and issues a request.
C10_ExpiredEntryRefetched ==
    (AtReturn /\ PairKey \in DOMAIN cache_before
       /\ now - inserted_at[PairKey] > expire_after)
      => ~hit /\ reqs >= 1

\* the station ids of the catalog
StationIds == { load_stations[i].StationID : i \in 1..Len(load_stations) }

\* C11: a cache entry is returned only to a fetch of the ordered pair whose
\* result it stores: a hit is on a pair that was obtained and stored for
\* that same origin and destination, and returns that result; the key a
\* fetch looks up is the key of no other stored pair, the reverse pair
\* included.
C11_KeyIsOrderedPair ==
    /\ (AtReturn /\ hit) => (Pair \in DOMAIN delivered /\ ret = delivered[Pair])
    /\ (AtReturn /\ ~hit /\ f_start /= f_end) => reqs >= 1
    /\ AtReturn =>
         \A p \in DOMAIN delivered :
            p /= Pair => cache_key(p[1], p[2]) /= cache_key(f_start, f_end)

\* a fetch of (origin, destination) misses and asks the provider while the
\* result of (destination, origin) is in the cache
C11_Witness ==
    /\ AtReturn
    /\ f_start /= f_end
    /\ <<f_end, f_start>> \in DOMAIN delivered
    /\ (f_end \o "_" \o f_start) \in DOMAIN cache_before
    /\ PairKey \notin DOMAIN cache_before
    /\ ~hit
    /\ reqs >= 1

\* the running fetch is of a station to itself
SelfFetch == AtReturn /\ f_start = f_end

\* C12 as stated: a fetch of a station to itself returns failure without
\* reading the cache and without a request, the cache left as it was.
C12_SelfFetchSkipsCache ==
    SelfFetch => /\ ret = Failure
                 /\ ~looked_up
                 /\ reqs = 0
                 /\ api_cache = cache_before

\* C12 as amended: a fetch of a station to itself returns failure, not
\* served from the cache, with no request and the cache left as it was; the
\* cache, when there is one, is read first, and it never holds an entry
\* under the key of a station paired with itself.
C12_SelfFetchFails ==
    /\ SelfFetch => /\ ret = Failure
                    /\ ~hit
                    /\ reqs = 0
                    /\ trace = <<>>
                    /\ api_cache = cache_before
                    /\ looked_up = has_api_cache
    /\ AtReturn => \A x \in StationIds : (x \o "_" \o x) \notin DOMAIN api_cache

\* a fetch of a station to itself returns failure with results of other
\* pairs in the cache
C12_Witness ==
    /\ SelfFetch
    /\ cache_before /= EmptyCache
    /\ looked_up
    /\ ret = Failure
    /\ reqs = 0

\* the last request of the running fetch was answered with a parsed body
Answered ==
    /\ AtReturn
    /\ ~hit
    /\ trace /= <<>>
    /\ LastOutcome.kind = "Response"
    /\ LastOutcome.status = 200

Interchanges(journey) == Len(journey.legs) - 1

\* journey j has the fewest interchanges of js and is the first to have them
FirstFewest(js, j) ==
    /\ \A k \in 1..Len(js) : Interchanges(js[j]) <= Interchanges(js[k])
    /\ \A k \in 1..(j - 1) : Interchanges(js[j]) < Interchanges(js[k])

\* route r lists the legs of a journey, "Walking" where a leg has no line
RouteOf(r, journey) ==
    /\ Len(r) = Len(journey.legs)
    /\ \A k \in 1..Len(r) :
         /\ r[k].from = journey.legs[k].departurePoint
         /\ r[k].to = journey.legs[k].arrivalPoint
         /\ r[k].line = IF journey.legs[k].routeOptions = <<>> THEN "Walking"
                         ELSE journey.legs[k].routeOptions[1]

\* C13: the fetch returns the duration and the route of the journey with the
\* fewest interchanges, the first of them in provider order; when the
\* provider answers with no journey, it returns failure, the cache as it was.
C13_FewestInterchangesFirst ==
    Answered =>
      IF LastOutcome.journeys = <<>>
      THEN ret = Failure /\ api_cache = cache_before
      ELSE \E j \in 1..Len(LastOutcome.journeys) :
             /\ FirstFewest(LastOutcome.journeys, j)
             /\ ret.duration = LastOutcome.journeys[j].duration
             /\ RouteOf(ret.route, LastOutcome.journeys[j])

\* the provider answered with two journeys of equally few interchanges and
\* different durations, and the first was returned
C13_Witness ==
    /\ Answered
    /\ Len(LastOutcome.journeys) = 2
    /\ Interchanges(LastOutcome.journeys[1]) = Interchanges(LastOutcome.journeys[2])
    /\ LastOutcome.journeys[1].duration /= LastOutcome.journeys[2].duration
    /\ ret.duration = LastOutcome.journeys[1].duration

\* a step that starts a run of the calculation section
SolveStarts == pc = "idle" /\ runs' = runs + 1

InCatalog(name) == \E i \in 1..Len(load_stations) : load_stations[i].Station = name

\* position k of the list holds the first name the catalog does not have
FirstMissing(k) ==
    /\ k \in 1..Len(user_stations)
    /\ ~InCatalog(user_stations[k])
    /\ \A j \in 1..(k - 1) : InCatalog(user_stations[j])

\* C14: a run started with a name the catalog does not have ends at once in
\* RESOLUTION_FAILURE naming the first such name of the list, with no
\* midpoint, no candidate, no request and the cache as it was; and no run
\* reports RESOLUTION_FAILURE otherwise.
C14_UnresolvedNameFails ==
    /\ [][(SolveStarts /\ \E k \in 1..Len(user_stations) : FirstMissing(k))
            => /\ outcome' = "RESOLUTION_FAILURE"
               /\ \E k \in 1..Len(user_stations) :
                    FirstMissing(k) /\ unresolved_name' = user_stations[k]
               /\ pc' = "idle"
               /\ midpoint' = NoMidpoint
               /\ nearby_stations' = <<>>
               /\ history' = <<>>
               /\ reqs' = 0
               /\ api_cache' = api_cache
               /\ has_api_cache' = has_api_cache]_vars
    /\ [](outcome = "RESOLUTION_FAILURE"
            => /\ \E k \in 1..Len(user_stations) :
                    FirstMissing(k) /\ unresolved_name = user_stations[k]
               /\ pc = "idle"
               /\ midpoint = NoMidpoint
               /\ history = <<>>)

\* a run has ended in RESOLUTION_FAILURE on the second name of the list,
\* with results of an earlier run in the cache
C14_Witness ==
    /\ outcome = "RESOLUTION_FAILURE"
    /\ FirstMissing(2)
    /\ unresolved_name = user_stations[2]
    /\ midpoint = NoMidpoint
    /\ has_api_cache
    /\ api_cache /= EmptyCache

\* the candidate loop of a run has ended and its report is on the page
LoopEnded ==
    /\ pc = "idle"
    /\ nearby_stations /= <<>>
    /\ outcome \in {"SUCCESS", "NO_CANDIDATE"}

\* the candidate loop is running
InLoop == pc \in {"loop_dest", "loop_origin", "fetch", "request", "fetch_ret", "score"}

\* C15: a fetch that fails eliminates its candidate only: the candidates are
\* taken one after the other in filter order whatever the fetches return,
\* every one of them is finished when the loop ends, and the run then
\* reports SUCCESS exactly when some candidate got a usable time from every
\* origin, NO_CANDIDATE exactly when none did.
C15_FailureEliminatesOneCandidate ==
    /\ InLoop =>
         /\ Len(history) \in {idx - 1, idx}
         /\ Len(history) = idx => idx > Len(nearby_stations) \/ pc = "loop_dest"
         /\ \A i \in 1..Len(history) : history[i].station = nearby_stations[i].Station
    /\ LoopEnded =>
         /\ Len(history) = Len(nearby_stations)
         /\ \A i \in 1..Len(history) : history[i].station = nearby_stations[i].Station
         /\ outcome = "SUCCESS" <=> \E i \in 1..Len(history) : FullyEvaluated(history[i])
         /\ outcome = "NO_CANDIDATE" <=> \A i \in 1..Len(history) : ~FullyEvaluated(history[i])

\* the first candidate lost a fetch, the second got a usable time from
\* every origin and is the meeting station
C15_Witness ==
    /\ LoopEnded
    /\ outcome = "SUCCESS"
    /\ Len(history) >= 2
    /\ \E k \in 1..Len(history[1].returned) : ~Usable(history[1].returned[k])
    /\ FullyEvaluated(history[2])
    /\ best_station = history[2].station

\* the candidate being evaluated, and whether it is the station of an origin
CandidateId == nearby_stations[idx].StationID
IsOrigin(id) == \E k \in 1..Len(start_ids) : start_ids[k] = id

\* C16 as stated: every candidate is evaluated, and a candidate that is the
\* station of an origin is eligible: when no fetch from another station has
\* failed for it, it is scored with one time per origin.
C16_OriginCandidateEligible ==
    (pc = "score" /\ IsOrigin(CandidateId))
      => /\ fetched /= <<>>
         /\ (\A k \in 1..Len(fetched) :
                fetched[k].start /= fetched[k].end => Usable(fetched[k].duration))
              => valid /\ Len(times) = Len(start_ids)

\* the station id of a station name, by the catalog
IdOf(name, id) ==
    \E i \in 1..Len(load_stations) :
        load_stations[i].Station = name /\ load_stations[i].StationID = id

\* C17: on SUCCESS the report has one duration and one route per origin, in
\* the order of the station list: entry k is what fetch(origin k, meeting
\* station) returned in this run, and the maximum difference is the largest
\* of these durations minus the smallest.
C17_ReportAlignedToOrigins ==
    (pc = "idle" /\ outcome = "SUCCESS") =>
      /\ Len(results.times) = Len(user_stations)
      /\ Len(results.routes) = Len(user_stations)
      /\ Len(start_ids) = Len(user_stations)
      /\ \E i \in 1..Len(history) :
           /\ history[i].station = best_station
           /\ Len(history[i].fetched) = Len(user_stations)
           /\ \A k \in 1..Len(user_stations) :
                /\ IdOf(user_stations[k], history[i].fetched[k].start)
                /\ IdOf(best_station, history[i].fetched[k].end)
                /\ results.times[k] = history[i].fetched[k].duration
                /\ results.routes[k] = history[i].fetched[k].route
      /\ \E a, b \in 1..Len(results.times) :
           /\ \A k \in 1..Len(results.times) :
                results.times[b] <= results.times[k] /\ results.times[k] <= results.times[a]
           /\ max_diff = results.times[a] - results.times[b]

\* a SUCCESS whose durations differ between the origins, a later candidate
\* having got other durations
C17_Witness ==
    /\ pc = "idle"
    /\ outcome = "SUCCESS"
    /\ max_diff > 0
    /\ results.times[1] < results.times[2]
    /\ results.routes[1] /= results.routes[2]
    /\ \E i, j \in 1..Len(history) :
         /\ i < j
         /\ history[i].station = best_station
         /\ FullyEvaluated(history[j])
         /\ history[j].returned /= results.times

\* something of the calculation section has run: a midpoint, a filtered
\* list, a candidate, a fetch or a request
SolveUnderWay ==
    \/ midpoint /= NoMidpoint
    \/ nearby_stations /= <<>>
    \/ start_ids /= <<>>
    \/ InLoop
    \/ history /= <<>>
    \/ f_start /= ""
    \/ reqs > 0

\* C18: whatever was added, removed and cleared before, nothing of the
\* calculation section runs with fewer than 2 origins: a midpoint is the
\* mean of at least 2 coordinates, one per station of the list, and a press
\* of the solve button with 0 or 1 stations computes no midpoint, evaluates
\* no candidate and issues no request.
C18_NoSolveBelowTwoOrigins ==
    /\ SolveUnderWay =>
         /\ Len(user_stations) >= 2
         /\ Len(start_ids) = Len(user_stations)
         /\ midpoint.n = Len(user_stations)
    /\ Len(user_stations) < 2 => pc = "idle" /\ outcome \in {"NONE", "KeyError"}
    /\ rejected =>
         /\ Len(user_stations) < 2
         /\ ~SolveUnderWay
         /\ outcome = "NONE"

\* after a run with 2 stations one was removed and the solve button
\* pressed again: the press was rejected
C18_Witness ==
    /\ rejected
    /\ Len(user_stations) = 1
    /\ runs >= 1
    /\ has_api_cache
    /\ midpoint = NoMidpoint
    /\ pc = "idle"

\* catalog row i is farther than radius_km from the midpoint lat/n, lon/n
\* (both sides scaled by n)
OutOfRadius(i) ==
    LET dy == midpoint.n * load_stations[i].Latitude - midpoint.lat
        dx == midpoint.n * load_stations[i].Longitude - midpoint.lon
    IN  dy * dy + dx * dx > (midpoint.n * radius_km) * (midpoint.n * radius_km)

\* a midpoint was computed and no catalog station is within the radius of it
EmptyFilter == midpoint /= NoMidpoint /\ \A i \in 1..Len(load_stations) : OutOfRadius(i)

\* C19: when no catalog station is within the radius of the midpoint, the
\* run has ended in NO_CANDIDATE, not in RESOLUTION_FAILURE, with no
\* candidate evaluated, no fetch and no request, and the step that started
\* it left the cache as it was; with a station in the radius the filtered
\* list is not empty.
C19_EmptyFilterNoCandidate ==
    /\ [](EmptyFilter =>
            /\ pc = "idle"
            /\ outcome = "NO_CANDIDATE"
            /\ unresolved_name = ""
            /\ nearby_stations = <<>>
            /\ history = <<>>
            /\ f_start = ""
            /\ reqs = 0
            /\ best_station = NoStation)
    /\ []((midpoint /= NoMidpoint /\ ~EmptyFilter) => nearby_stations /= <<>>)
    /\ [][(SolveStarts /\ EmptyFilter')
            => api_cache' = api_cache /\ has_api_cache' = has_api_cache]_vars

\* a run over two stations far apart has ended in NO_CANDIDATE, the cache
\* still holding the results of an earlier run
C19_Witness ==
    /\ EmptyFilter
    /\ pc = "idle"
    /\ outcome = "NO_CANDIDATE"
    /\ nearby_stations = <<>>
    /\ history = <<>>
    /\ has_api_cache
    /\ api_cache /= EmptyCache

\* a run has ended in one of its three reports
Terminal ==
    /\ pc = "idle"
    /\ outcome \in {"SUCCESS", "NO_CANDIDATE", "RESOLUTION_FAILURE"}

\* candidates x origins x requests of one fetch
RequestBudget == Len(nearby_stations) * Len(start_ids) * (DefaultRetries + 1)

\* C20: a run that has started ends, whatever the provider answers, in
\* SUCCESS, NO_CANDIDATE or RESOLUTION_FAILURE and reports nothing before;
\* a fetch issues at most 1 + retries requests and a run at most
\* candidates x origins x (1 + retries).
C20_SolveTerminatesWithinBudget ==
    /\ [][SolveStarts => (InLoop' \/ Terminal')]_vars
    /\ [](InLoop => outcome = "NONE")
    /\ (InLoop ~> Terminal)
    /\ [](reqs <= DefaultRetries + 1)
    /\ [](solve_reqs <= RequestBudget)

\* a run has ended in SUCCESS after every one of its fetches timed out 3
\* times: the budget is used up
C20_Witness ==
    /\ Terminal
    /\ outcome = "SUCCESS"
    /\ RequestBudget > 0
    /\ solve_reqs = RequestBudget

====
